---------------------------- MODULE Spec2Model ----------------------------
(***************************************************************************)
(* website-screenshot-cli (src/app/main.py): the batch runner run_list,    *)
(* the slug allocator unique_slug_for_url, the URL filter should_skip_url, *)
(* the capture orchestrator capture_single_url, the page preparation       *)
(* nav_and_prepare / progressive_scroll and the modal handler              *)
(* try_capture_modal_only / close_any_modal.                               *)
(*                                                                         *)
(* Strings the program computes with (URL paths, slugs, file names) are    *)
(* sequences of one-character strings, so that splitting, sanitising and   *)
(* concatenating are computed as the code computes them.  The browser is   *)
(* the environment: every page call either succeeds or raises, and every   *)
(* value read from the page is chosen from a small set.                    *)
(***************************************************************************)
EXTENDS Integers, Sequences, FiniteSets, TLC

(***************************************************************************)
(* Bounds of the model.                                                    *)
(***************************************************************************)
\* longest input URL list of a batch whose captures are modelled step by step
MaxTargets == 2
\* longest input URL list of a batch whose filtering and naming are modelled
MaxUrls == 3
\* largest scrollHeight the page reports, in scroll steps
MaxHeightSteps == 1
\* the same range for the scroll loop taken alone (ScrollSpec)
MaxScrollSteps == 3

(***************************************************************************)
(* Characters and string helpers.                                          *)
(***************************************************************************)
UPPER == <<"A","B","C","D","E","F","G","H","I","J","K","L","M",
           "N","O","P","Q","R","S","T","U","V","W","X","Y","Z">>
LOWER == <<"a","b","c","d","e","f","g","h","i","j","k","l","m",
           "n","o","p","q","r","s","t","u","v","w","x","y","z">>
DIGITS == <<"0","1","2","3","4","5","6","7","8","9">>

Range(s) == { s[i] : i \in DOMAIN s }

\* the lower-case letter of every upper-case letter
LOWER_OF == [c \in Range(UPPER) |-> LOWER[CHOOSE i \in DOMAIN UPPER : UPPER[i] = c]]

\* str.lower() on one character
LowerChar(c) == IF c \in DOMAIN LOWER_OF THEN LOWER_OF[c] ELSE c

\* str.lower()
Lower(s) == [i \in DOMAIN s |-> LowerChar(s[i])]

\* str.endswith(suf)
EndsWith(s, suf) ==
    /\ Len(s) >= Len(suf)
    /\ SubSeq(s, Len(s) - Len(suf) + 1, Len(s)) = suf

RECURSIVE LStrip(_, _)
LStrip(s, cs) ==
    IF s # <<>> /\ Head(s) \in cs THEN LStrip(Tail(s), cs) ELSE s

RECURSIVE RStrip(_, _)
RStrip(s, cs) ==
    IF s # <<>> /\ s[Len(s)] \in cs THEN RStrip(SubSeq(s, 1, Len(s) - 1), cs) ELSE s

\* str.strip(chars)
Strip(s, cs) == RStrip(LStrip(s, cs), cs)

WHITESPACE == {" "}

\* str(n) for a natural number
RECURSIVE ToStr(_)
ToStr(n) ==
    IF n < 10 THEN <<DIGITS[n + 1]>>
    ELSE ToStr(n \div 10) \o <<DIGITS[(n % 10) + 1]>>

\* path.split("/") with the empty pieces dropped:
\* [seg for seg in path.split("/") if seg]
RECURSIVE SplitAcc(_, _)
SplitAcc(s, cur) ==
    IF s = <<>> THEN (IF cur = <<>> THEN <<>> ELSE <<cur>>)
    ELSE IF Head(s) = "/"
         THEN (IF cur = <<>> THEN <<>> ELSE <<cur>>) \o SplitAcc(Tail(s), <<>>)
         ELSE SplitAcc(Tail(s), Append(cur, Head(s)))

Segments(path) == SplitAcc(path, <<>>)

(***************************************************************************)
(* should_skip_url                                                         *)
(***************************************************************************)
NON_HTML_EXTS ==
    { <<".","p","d","f">>, <<".","z","i","p">>, <<".","t","a","r">>, <<".","g","z">>,
      <<".","t","g","z">>, <<".","b","z","2">>, <<".","7","z">>, <<".","r","a","r">>,
      <<".","d","o","c">>, <<".","d","o","c","x">>, <<".","p","p","t">>,
      <<".","p","p","t","x">>, <<".","x","l","s">>, <<".","x","l","s","x">>,
      <<".","c","s","v">>, <<".","t","s","v">>,
      <<".","m","p","4">>, <<".","m","p","3">>, <<".","w","e","b","m">>,
      <<".","m","o","v">>, <<".","a","v","i">>, <<".","m","k","v">>,
      <<".","j","p","g">>, <<".","j","p","e","g">>, <<".","p","n","g">>,
      <<".","g","i","f">>, <<".","s","v","g">>, <<".","i","c","o">>,
      <<".","w","e","b","p">>,
      <<".","j","s","o","n">>, <<".","x","m","l">>, <<".","r","s","s">>,
      <<".","a","t","o","m">>, <<".","t","x","t">>, <<".","m","d">>,
      <<".","y","a","m","l">>, <<".","y","m","l">> }

\* A URL is the pair urlparse(u) yields of it: its scheme and its path.
should_skip_url(u, include) ==
    IF include THEN FALSE
    ELSE IF u.scheme \notin {"http", "https"} THEN TRUE
    ELSE \E ext \in NON_HTML_EXTS : EndsWith(Lower(u.path), ext)

(***************************************************************************)
(* _slugify_segment                                                        *)
(***************************************************************************)
PAGE_SUFFIXES ==
    { <<".","h","t","m","l">>, <<".","h","t","m">>,
      <<".","a","s","p","x">>, <<".","p","h","p">> }

\* the class [a-z0-9\-_]
SLUG_CHARS == Range(LOWER) \cup Range(DIGITS) \cup {"-", "_"}

IsSlugChar(c) == c \in SLUG_CHARS

\* re.sub(r"\.(html?|aspx|php)$", "", s): the leftmost match that reaches the
\* end of the string is the longest suffix of the four
StripPageSuffix(s) ==
    LET hits == { suf \in PAGE_SUFFIXES : EndsWith(s, suf) }
    IN  IF hits = {} THEN s
        ELSE LET suf == CHOOSE x \in hits : \A z \in hits : Len(z) <= Len(x)
             IN  SubSeq(s, 1, Len(s) - Len(suf))

\* re.sub(r"[^a-z0-9\-_]+", "-", s)
RECURSIVE ReplaceNonSlugRuns(_)
ReplaceNonSlugRuns(s) ==
    IF s = <<>> THEN <<>>
    ELSE IF IsSlugChar(Head(s)) THEN <<Head(s)>> \o ReplaceNonSlugRuns(Tail(s))
    ELSE IF Len(s) >= 2 /\ ~IsSlugChar(s[2]) THEN ReplaceNonSlugRuns(Tail(s))
    ELSE <<"-">> \o ReplaceNonSlugRuns(Tail(s))

\* re.sub(r"-{2,}", "-", s)
RECURSIVE CollapseHyphens(_)
CollapseHyphens(s) ==
    IF s = <<>> THEN <<>>
    ELSE IF Len(s) >= 2 /\ s[1] = "-" /\ s[2] = "-" THEN CollapseHyphens(Tail(s))
    ELSE <<Head(s)>> \o CollapseHyphens(Tail(s))

PAGE == <<"p","a","g","e">>
HOME == <<"h","o","m","e">>

_slugify_segment(seg) ==
    LET s1 == Lower(Strip(seg, WHITESPACE))
        s2 == StripPageSuffix(s1)
        s3 == ReplaceNonSlugRuns(s2)
        s4 == Strip(CollapseHyphens(s3), {"-"})
    IN  IF s4 = <<>> THEN PAGE ELSE s4

(***************************************************************************)
(* unique_slug_for_url                                                     *)
(***************************************************************************)
\* base and parent of a URL (main.py 353-360); parent = <<>> is Python's ""
SlugBase(u) ==
    LET parts == Segments(u.path)
    IN  IF parts = <<>> THEN HOME ELSE _slugify_segment(parts[Len(parts)])

SlugParent(u) ==
    LET parts == Segments(u.path)
    IN  IF Len(parts) >= 2 THEN _slugify_segment(parts[Len(parts) - 1]) ELSE <<>>

\* f"{base}-{n}"
Numbered(base, n) == base \o <<"-">> \o ToStr(n)

\* the while loop of main.py 372-378, entered with counter n
RECURSIVE FirstFreeNumbered(_, _, _)
FirstFreeNumbered(base, n, reg) ==
    IF Numbered(base, n) \notin reg THEN Numbered(base, n)
    ELSE FirstFreeNumbered(base, n + 1, reg)

\* unique_slug_for_url without the membership test of main.py 368
unique_slug_for_url_NoParentCheck(u, reg) ==
    LET base   == SlugBase(u)
        parent == SlugParent(u)
    IN  IF base # <<>> /\ base \notin reg THEN base
        ELSE IF parent # <<>> THEN parent \o <<"-">> \o base
        ELSE FirstFreeNumbered(base, 2, reg)

\* unique_slug_for_url with the counter of main.py 372 started at 1
unique_slug_for_url_NumberFromOne(u, reg) ==
    LET base   == SlugBase(u)
        parent == SlugParent(u)
    IN  IF base # <<>> /\ base \notin reg THEN base
        ELSE IF parent # <<>> /\ (parent \o <<"-">> \o base) \notin reg
             THEN parent \o <<"-">> \o base
        ELSE FirstFreeNumbered(base, 1, reg)

\* unique_slug_for_url without the parent-qualified candidate of main.py 366-370
unique_slug_for_url_NoParent(u, reg) ==
    LET base == SlugBase(u)
    IN  IF base # <<>> /\ base \notin reg THEN base
        ELSE FirstFreeNumbered(base, 2, reg)

\* the slug the call returns; the call also adds it to the registry
unique_slug_for_url(u, reg) ==
    LET base   == SlugBase(u)
        parent == SlugParent(u)
    IN  IF base # <<>> /\ base \notin reg THEN base
        ELSE IF parent # <<>> /\ (parent \o <<"-">> \o base) \notin reg
             THEN parent \o <<"-">> \o base
        ELSE FirstFreeNumbered(base, 2, reg)


(***************************************************************************)
(* Inputs of a batch.                                                      *)
(***************************************************************************)
Url(scheme, path) == [scheme |-> scheme, path |-> path]

U_root      == Url("https", <<"/">>)
U_empty     == Url("https", <<>>)
U_foo       == Url("https", <<"/","f","o","o">>)
U_foo_popup == Url("https", <<"/","f","o","o","_","p","o","p","u","p">>)
U_a_foo     == Url("https", <<"/","a","/","f","o","o">>)
U_foo_2     == Url("https", <<"/","f","o","o","-","2">>)
U_Foo_html  == Url("http",  <<"/","F","o","o",".","h","t","m","l">>)
U_pdf       == Url("https", <<"/","r",".","p","d","f">>)
U_ftp       == Url("ftp",   <<"/","f">>)
U_home      == Url("https", <<"/","h","o","m","e">>)

U_post_one       == Url("https", <<"/","b","l","o","g","/","p","o","s","t","-","o","n","e">>)
U_post_two       == Url("https", <<"/","b","l","o","g","/","p","o","s","t","-","t","w","o">>)
U_products_index == Url("https", <<"/","p","r","o","d","u","c","t","s","/","i","n","d","e","x">>)
U_services_index == Url("https", <<"/","s","e","r","v","i","c","e","s","/","i","n","d","e","x">>)

\* the URLs of the examples of the allocator
EXAMPLE_URLS == { U_post_one, U_post_two, U_products_index, U_services_index }

URLS == { U_root, U_empty, U_foo, U_foo_popup, U_a_foo, U_foo_2,
          U_Foo_html, U_pdf, U_ftp, U_home }

\* the URLs of the batches whose captures are modelled
PIPELINE_URLS == { U_foo, U_foo_popup, U_pdf }

SeqsUpTo(S, n) == UNION { [1..k -> S] : k \in 0..n }

\* default step of progressive_scroll, in pixels
SCROLL_STEP == 800
\* the values document.body.scrollHeight may report
Heights == { k * (SCROLL_STEP \div 2) : k \in 0..(2 * MaxHeightSteps) }
\* a taller range of them, for the scroll loop taken alone
ScrollHeights == { k * (SCROLL_STEP \div 2) : k \in 0..(2 * MaxScrollSteps) }

(***************************************************************************)
(* State.                                                                  *)
(***************************************************************************)
VARIABLES
    urls, include_nonhtml, settle, isi_reached, hide_selectors, defloat,
    no_modal_shot,          \* the arguments of run_list
    scroll_heights,         \* the values scrollHeight may report on the pages
    pc,                     \* the statement about to execute
    filtered, skipped,      \* run_list: the two lists of main.py 565-566
    used,                   \* run_list: the slug registry
    idx,                    \* run_list: number of the current target (1-based)
    u,                      \* run_list: URL of the current target
    slug,                   \* run_list: slug of the current target
    ordered_images,         \* run_list: accumulated image paths
    pdf_images,             \* the list build_pdf_from_images was called with
    images,                 \* capture_single_url: image paths of this target
    vp,                     \* capture_single_url: viewport under capture
    browser_open,           \* the browser launched by capture_single_url
    contexts,               \* browsing contexts opened and not yet closed
    y,                      \* progressive_scroll: scroll position
    new_h,                  \* progressive_scroll: the height read last
    max_h,                  \* history: the greatest height read in this loop
    grew,                   \* history: every height read in this loop was at
                            \*          least one step above the one before
    exc,                    \* the page call whose exception is propagating
    trace,                  \* history: page calls issued on the current page
    slugs,                  \* history: slugs returned, in call order
    captures,               \* history: image files written, in order
    detected,               \* history: viewports of this target where the
                            \*          detection script reported a modal
    returned                \* history: lists returned by capture_single_url

args == <<urls, include_nonhtml, settle, isi_reached, hide_selectors, defloat,
          no_modal_shot, scroll_heights>>
batch == <<filtered, skipped, used, idx, u, slug, ordered_images, pdf_images,
           slugs, returned>>
scroll == <<y, new_h, max_h, grew>>
target == <<images, vp, browser_open, contexts, scroll, trace, captures, detected>>
vars == <<args, pc, batch, target, exc>>

\* the state run_list starts in, whatever its arguments
Start ==
    /\ pc = "rl_filter"
    /\ filtered = <<>> /\ skipped = <<>> /\ used = {} /\ idx = 0
    /\ u = Url("", <<>>)
    /\ slug = <<>> /\ ordered_images = <<>> /\ pdf_images = <<>>
    /\ images = <<>> /\ vp = "desktop" /\ browser_open = FALSE
    /\ contexts = {} /\ exc = "none" /\ trace = <<>>
    /\ y = 0 /\ new_h = 0 /\ max_h = 0 /\ grew = TRUE
    /\ slugs = <<>> /\ captures = <<>> /\ returned = <<>> /\ detected = {}

\* a batch of at most MaxTargets URLs under every combination of the
\* normalisation and modal flags; non-HTML filtering as by default
Init ==
    /\ urls \in SeqsUpTo(PIPELINE_URLS, MaxTargets)
    /\ include_nonhtml = FALSE
    /\ settle \in BOOLEAN
    /\ isi_reached \in BOOLEAN
    /\ hide_selectors \in BOOLEAN      \* TRUE: a non-empty selector list
    /\ defloat \in BOOLEAN
    /\ no_modal_shot \in BOOLEAN
    /\ scroll_heights = Heights
    /\ Start

\* a batch of at most MaxUrls URLs of every shape, with and without the
\* include-non-HTML override; the flags of the capture as by default
NamingInit ==
    /\ urls \in SeqsUpTo(URLS, MaxUrls)
    /\ include_nonhtml \in BOOLEAN
    /\ settle = TRUE
    /\ isi_reached = FALSE
    /\ hide_selectors = FALSE
    /\ defloat = FALSE
    /\ no_modal_shot = FALSE
    /\ scroll_heights = Heights
    /\ Start

\* a batch of at most MaxUrls of the example URLs
ExampleInit ==
    /\ urls \in SeqsUpTo(EXAMPLE_URLS, MaxUrls)
    /\ include_nonhtml \in BOOLEAN
    /\ settle = TRUE
    /\ isi_reached = FALSE
    /\ hide_selectors = FALSE
    /\ defloat = FALSE
    /\ no_modal_shot = FALSE
    /\ scroll_heights = Heights
    /\ Start

(***************************************************************************)
(* Output paths.                                                           *)
(***************************************************************************)
SUFFIX_DT       == <<"_","d","t",".","p","n","g">>
SUFFIX_MB       == <<"_","m","b",".","p","n","g">>
SUFFIX_POPUP_DT == <<"_","p","o","p","u","p","_","d","t",".","p","n","g">>
SUFFIX_POPUP_MB == <<"_","p","o","p","u","p","_","m","b",".","p","n","g">>

\* desktop_dir / f"{base_name}_popup_dt.png" and the three other names
ImagePath(base_name, kind, viewport) ==
    [dir  |-> viewport,
     name |-> base_name \o
              (IF kind = "popup"
               THEN (IF viewport = "desktop" THEN SUFFIX_POPUP_DT ELSE SUFFIX_POPUP_MB)
               ELSE (IF viewport = "desktop" THEN SUFFIX_DT ELSE SUFFIX_MB))]

Capture(kind) ==
    [target |-> idx, url |-> u, kind |-> kind, viewport |-> vp,
     path |-> ImagePath(slug, kind, vp)]

(***************************************************************************)
(* Control flow helpers: the statement reached after each step of          *)
(* nav_and_prepare, given the flags.                                       *)
(***************************************************************************)
AfterPrepare == IF ~no_modal_shot THEN "mo_detect" ELSE "cs_full"
AfterHide    == IF defloat THEN "np_defloat" ELSE AfterPrepare
AfterFreeze  == IF hide_selectors THEN "np_hide" ELSE AfterHide
AfterIsi     == IF settle THEN "np_freeze" ELSE AfterFreeze
AfterScroll  == IF isi_reached THEN "np_isi" ELSE AfterIsi
AfterGoto    == IF settle THEN "ps_scroll" ELSE AfterScroll

\* an exception leaves capture_single_url: no handler in nav_and_prepare,
\* try_capture_modal_only (outside its two try blocks) or capture_single_url
Raise(step) ==
    /\ pc' = "cs_raised"
    /\ exc' = step

\* page.evaluate(script) of one normalisation directive
Evaluate(at, name, next) ==
    /\ pc = at
    /\ trace' = Append(trace, name)
    /\ \E ok \in BOOLEAN :
         IF ok THEN pc' = next /\ exc' = exc
         ELSE Raise(name)
    /\ UNCHANGED <<args, batch, images, vp, browser_open, contexts, scroll, captures, detected>>

(***************************************************************************)
(* run_list                                                                *)
(***************************************************************************)
\* main.py 565-571
RunListFilter ==
    /\ pc = "rl_filter"
    /\ filtered' = SelectSeq(urls, LAMBDA x : ~should_skip_url(x, include_nonhtml))
    /\ skipped' = SelectSeq(urls, LAMBDA x : x \notin Range(filtered'))
    /\ used' = {}
    /\ pc' = "rl_loop"
    /\ UNCHANGED <<args, idx, u, slug, ordered_images, pdf_images, slugs, returned,
                   target, exc>>

\* slug = unique_slug_for_url(u, used): the slug returned and the registry
\* updated in place (main.py 363, 369, 376)
Allocate(url) ==
    /\ slug' = unique_slug_for_url(url, used)
    /\ used' = used \cup {slug'}
    /\ slugs' = Append(slugs, slug')

\* the loop of run_list with only its slug allocation: the allocator applied
\* to the surviving URLs in order against the one registry
AllocateSlug ==
    /\ pc = "rl_loop"
    /\ idx < Len(filtered)
    /\ idx' = idx + 1
    /\ u' = filtered[idx']
    /\ Allocate(u')
    /\ UNCHANGED <<args, pc, filtered, skipped, ordered_images, pdf_images, returned,
                   target, exc>>

\* main.py 579-594: the loop takes the next target and allocates its slug
NextTarget ==
    /\ pc = "rl_loop"
    /\ idx < Len(filtered)
    /\ idx' = idx + 1
    /\ u' = filtered[idx']
    /\ Allocate(u')
    /\ pc' = "cs_launch"
    /\ UNCHANGED <<args, filtered, skipped, ordered_images, pdf_images, returned,
                   target, exc>>

\* main.py 610-615 and build_pdf_from_images 553-558
BuildPdf ==
    /\ pc = "rl_loop"
    /\ idx = Len(filtered)
    /\ IF ordered_images = <<>>
       THEN /\ pc' = "rl_raised"
            /\ exc' = "no_images"
            /\ UNCHANGED pdf_images
       ELSE /\ pc' = "done"
            /\ pdf_images' = ordered_images
            /\ UNCHANGED exc
    /\ UNCHANGED <<args, filtered, skipped, used, idx, u, slug, ordered_images,
                   slugs, returned, target>>

\* an exception of capture_single_url leaves the with block and run_list
RunListRaise ==
    /\ pc = "cs_raised"
    /\ pc' = "rl_raised"
    /\ UNCHANGED <<args, batch, target, exc>>

(***************************************************************************)
(* capture_single_url                                                      *)
(***************************************************************************)
\* main.py 443-453
Launch ==
    /\ pc = "cs_launch"
    /\ browser_open' = TRUE
    /\ images' = <<>>
    /\ vp' = "desktop"
    /\ pc' = "cs_ctx"
    /\ detected' = {}
    /\ UNCHANGED <<args, batch, contexts, scroll, trace, captures, exc>>

\* main.py 456-462 and 490-498
NewContext ==
    /\ pc = "cs_ctx"
    /\ contexts' = contexts \cup {vp}
    /\ trace' = <<>>
    /\ pc' = "np_goto"
    /\ UNCHANGED <<args, batch, images, vp, browser_open, scroll, captures, detected, exc>>

(***************************************************************************)
(* nav_and_prepare and progressive_scroll                                  *)
(***************************************************************************)
\* main.py 304-305: page.goto(url, wait_until=wait)
GotoLoad ==
    /\ pc = "np_goto"
    /\ \E ok \in BOOLEAN :
         /\ trace' = Append(trace, IF ok THEN "goto_load" ELSE "goto_load_failed")
         /\ pc' = IF ok THEN AfterGoto ELSE "np_retry"
    /\ UNCHANGED <<args, batch, images, vp, browser_open, contexts, scroll, captures, detected, exc>>

\* GotoDomContentLoaded with its own failure retried instead of propagated
GotoDomContentLoaded_RetryAgain ==
    /\ pc = "np_retry"
    /\ \E ok \in BOOLEAN :
         /\ trace' = Append(trace, IF ok THEN "goto_domcontentloaded"
                                          ELSE "goto_domcontentloaded_failed")
         /\ pc' = IF ok THEN AfterGoto ELSE "np_retry"
    /\ UNCHANGED <<args, batch, images, vp, browser_open, contexts, scroll, captures, detected, exc>>

\* main.py 306-307: the except branch, page.goto(url, "domcontentloaded")
GotoDomContentLoaded ==
    /\ pc = "np_retry"
    /\ \E ok \in BOOLEAN :
         /\ trace' = Append(trace, IF ok THEN "goto_domcontentloaded"
                                          ELSE "goto_domcontentloaded_failed")
         /\ IF ok THEN pc' = AfterGoto /\ exc' = exc
            ELSE Raise("goto")
    /\ UNCHANGED <<args, batch, images, vp, browser_open, contexts, scroll, captures, detected>>

\* main.py 293-294: window.scrollTo(0, y) and the pause
ScrollTo ==
    /\ pc = "ps_scroll"
    /\ \E ok \in BOOLEAN :
         IF ok THEN pc' = "ps_read" /\ exc' = exc
         ELSE Raise("settle_scroll")
    /\ UNCHANGED <<args, batch, target>>

\* main.py 295: new_h = document.body.scrollHeight
ReadHeight ==
    /\ pc = "ps_read"
    /\ \/ \E h \in scroll_heights :
            /\ new_h' = h
            /\ max_h' = IF h > max_h THEN h ELSE max_h
            /\ grew' = (grew /\ h >= new_h + SCROLL_STEP)
            /\ pc' = "ps_test"
            /\ exc' = exc
       \/ Raise("settle_scroll") /\ UNCHANGED <<new_h, max_h, grew>>
    /\ UNCHANGED <<args, batch, images, vp, browser_open, contexts, y, trace,
                   captures, detected>>

\* the test of the loop with > in place of >=
TestHeight_Strict ==
    /\ pc = "ps_test"
    /\ IF y > new_h
       THEN /\ pc' = AfterScroll
            /\ y' = 0 /\ new_h' = 0 /\ max_h' = 0 /\ grew' = TRUE
            /\ trace' = Append(trace, "settle_scroll")
       ELSE /\ pc' = "ps_scroll"
            /\ y' = y + SCROLL_STEP
            /\ UNCHANGED <<new_h, max_h, grew, trace>>
    /\ UNCHANGED <<args, batch, images, vp, browser_open, contexts, captures,
                   detected, exc>>

\* main.py 296-299: leave the loop when y >= new_h, else advance y by a step
TestHeight ==
    /\ pc = "ps_test"
    /\ IF y >= new_h
       THEN /\ pc' = AfterScroll
            /\ y' = 0 /\ new_h' = 0 /\ max_h' = 0 /\ grew' = TRUE
            /\ trace' = Append(trace, "settle_scroll")
       ELSE /\ pc' = "ps_scroll"
            /\ y' = y + SCROLL_STEP
            /\ UNCHANGED <<new_h, max_h, grew, trace>>
    /\ UNCHANGED <<args, batch, images, vp, browser_open, contexts, captures,
                   detected, exc>>

\* main.py 311-312
EvalIsiReached == Evaluate("np_isi", "isi_reached", AfterIsi)
\* main.py 313-314
EvalFreeze == Evaluate("np_freeze", "settle_freeze", AfterFreeze)
\* EvalHideSelectors without the banner-offset correction after it
EvalHideSelectors_NoClear == Evaluate("np_hide", "hide_selectors", AfterHide)

\* main.py 315-316
EvalHideSelectors == Evaluate("np_hide", "hide_selectors", "np_clear1")
\* main.py 317
EvalClearAfterHide == Evaluate("np_clear1", "clear_banner_offsets", AfterHide)
\* main.py 318-319
EvalDefloat == Evaluate("np_defloat", "defloat", "np_clear2")
\* main.py 320
EvalClearAfterDefloat == Evaluate("np_clear2", "clear_banner_offsets", AfterPrepare)


(***************************************************************************)
(* try_capture_modal_only and close_any_modal                              *)
(***************************************************************************)
\* main.py 397-403: the detection script, its exception swallowed
DetectModal ==
    /\ pc = "mo_detect"
    /\ trace' = Append(trace, "detect")
    /\ \E r \in {"true", "false", "raise"} :
         LET has_modal == (r = "true")
         IN  /\ pc' = IF has_modal THEN "mo_bbox" ELSE "cs_full"
             /\ detected' = IF has_modal THEN detected \cup {vp} ELSE detected
    /\ UNCHANGED <<args, batch, images, vp, browser_open, contexts, scroll, captures, exc>>

\* main.py 405-407: the bounding-box script, outside any try block
ModalBbox ==
    /\ pc = "mo_bbox"
    /\ trace' = Append(trace, "bbox")
    /\ \E r \in {"box", "null", "raise"} :
         CASE r = "box"   -> pc' = "mo_scroll" /\ exc' = exc
           [] r = "null"  -> pc' = "cs_full" /\ exc' = exc
           [] r = "raise" -> Raise("bbox")
    /\ UNCHANGED <<args, batch, images, vp, browser_open, contexts, scroll, captures, detected>>

\* main.py 409-410: scroll to the modal, outside any try block
ModalScroll ==
    /\ pc = "mo_scroll"
    /\ trace' = Append(trace, "modal_scroll")
    /\ \E ok \in BOOLEAN :
         IF ok THEN pc' = "mo_shot" /\ exc' = exc
         ELSE Raise("modal_scroll")
    /\ UNCHANGED <<args, batch, images, vp, browser_open, contexts, scroll, captures, detected>>

\* main.py 412-425 with the caller's append, 470-471 and 506-507
ModalShot ==
    /\ pc = "mo_shot"
    /\ trace' = Append(trace, "popup_shot")
    /\ \E ok \in BOOLEAN :
         IF ok
         THEN /\ images' = Append(images, ImagePath(slug, "popup", vp))
              /\ captures' = Append(captures, Capture("popup"))
              /\ pc' = "mo_close"
         ELSE /\ pc' = "cs_full"
              /\ UNCHANGED <<images, captures>>
    /\ UNCHANGED <<args, batch, vp, browser_open, contexts, scroll, detected, exc>>

\* close_any_modal, main.py 427-432: the script's exception is swallowed
CloseModal ==
    /\ pc = "mo_close"
    /\ trace' = Append(trace, "close")
    /\ \E ok \in BOOLEAN : pc' = "cs_full"
    /\ UNCHANGED <<args, batch, images, vp, browser_open, contexts, scroll, captures, detected, exc>>

(***************************************************************************)
(* capture_single_url, continued                                           *)
(***************************************************************************)
\* FullShot with the full-page image put at the front of the list
FullShot_Prepend ==
    /\ pc = "cs_full"
    /\ trace' = Append(trace, "full_shot")
    /\ \E ok \in BOOLEAN :
         IF ok
         THEN /\ images' = <<ImagePath(slug, "full", vp)>> \o images
              /\ captures' = Append(captures, Capture("full"))
              /\ pc' = "cs_close"
              /\ exc' = exc
         ELSE /\ Raise("full_shot")
              /\ UNCHANGED <<images, captures>>
    /\ UNCHANGED <<args, batch, vp, browser_open, contexts, scroll, detected>>

\* main.py 474-476 and 510-512: take_fullpage_screenshot and the append
FullShot ==
    /\ pc = "cs_full"
    /\ trace' = Append(trace, "full_shot")
    /\ \E ok \in BOOLEAN :
         IF ok
         THEN /\ images' = Append(images, ImagePath(slug, "full", vp))
              /\ captures' = Append(captures, Capture("full"))
              /\ pc' = "cs_close"
              /\ exc' = exc
         ELSE /\ Raise("full_shot")
              /\ UNCHANGED <<images, captures>>
    /\ UNCHANGED <<args, batch, vp, browser_open, contexts, scroll, detected>>

\* main.py 477 and 513: context.close(), then the mobile pass or the end
ContextClose ==
    /\ pc = "cs_close"
    /\ contexts' = contexts \ {vp}
    /\ IF vp = "desktop"
       THEN vp' = "mobile" /\ pc' = "cs_ctx"
       ELSE vp' = vp /\ pc' = "cs_bclose"
    /\ UNCHANGED <<args, batch, images, browser_open, scroll, trace, captures, detected, exc>>

\* BrowserClose with the returned list put before the accumulated ones
BrowserClose_Prepend ==
    /\ pc = "cs_bclose"
    /\ browser_open' = FALSE
    /\ ordered_images' = images \o ordered_images
    /\ returned' = Append(returned, images)
    /\ pc' = "rl_loop"
    /\ UNCHANGED <<args, filtered, skipped, used, idx, u, slug, pdf_images, slugs,
                   images, vp, contexts, scroll, trace, captures, detected, exc>>

\* main.py 514-515 and the caller's 599-602: browser.close(), return images,
\* ordered_images.extend(imgs)
BrowserClose ==
    /\ pc = "cs_bclose"
    /\ browser_open' = FALSE
    /\ ordered_images' = ordered_images \o images
    /\ returned' = Append(returned, images)
    /\ pc' = "rl_loop"
    /\ UNCHANGED <<args, filtered, skipped, used, idx, u, slug, pdf_images, slugs,
                   images, vp, contexts, scroll, trace, captures, detected, exc>>

(***************************************************************************)
(* Specification.                                                          *)
(***************************************************************************)
Next ==
    \/ RunListFilter
    \/ NextTarget
    \/ BuildPdf
    \/ RunListRaise
    \/ Launch
    \/ NewContext
    \/ GotoLoad
    \/ GotoDomContentLoaded
    \/ ScrollTo
    \/ ReadHeight
    \/ TestHeight
    \/ EvalIsiReached
    \/ EvalFreeze
    \/ EvalHideSelectors
    \/ EvalClearAfterHide
    \/ EvalDefloat
    \/ EvalClearAfterDefloat
    \/ DetectModal
    \/ ModalBbox
    \/ ModalScroll
    \/ ModalShot
    \/ CloseModal
    \/ FullShot
    \/ ContextClose
    \/ BrowserClose

Spec == Init /\ [][Next]_vars

\* filtering and slug allocation alone, over a wider range of URLs
NamingNext ==
    \/ RunListFilter
    \/ AllocateSlug

NamingSpec == NamingInit /\ [][NamingNext]_vars

\* the same two steps over the example URLs
ExampleSpec == ExampleInit /\ [][NamingNext]_vars

\* progressive_scroll is entered on the desktop page of a single target,
\* right after page.goto; the page may report any of ScrollHeights
ScrollInit ==
    /\ urls = <<U_foo>>
    /\ include_nonhtml = FALSE
    /\ settle = TRUE
    /\ isi_reached = FALSE
    /\ hide_selectors = FALSE
    /\ defloat = FALSE
    /\ no_modal_shot = FALSE
    /\ scroll_heights = ScrollHeights
    /\ pc = "ps_scroll"
    /\ filtered = urls /\ skipped = <<>> /\ idx = 1 /\ u = U_foo
    /\ slug = unique_slug_for_url(U_foo, {})
    /\ used = {slug} /\ slugs = <<slug>>
    /\ ordered_images = <<>> /\ pdf_images = <<>> /\ returned = <<>>
    /\ images = <<>> /\ vp = "desktop" /\ browser_open = TRUE
    /\ contexts = {"desktop"} /\ exc = "none" /\ trace = <<"goto_load">>
    /\ captures = <<>> /\ detected = {}
    /\ y = 0 /\ new_h = 0 /\ max_h = 0 /\ grew = TRUE

\* the three steps of the loop of progressive_scroll
ScrollNext ==
    \/ ScrollTo
    \/ ReadHeight
    \/ TestHeight

\* the loop alone; a running call always executes its next statement
ScrollSpec == ScrollInit /\ [][ScrollNext]_vars /\ WF_vars(ScrollNext)


(***************************************************************************)
(* Properties of the slug allocator and of the filter (NamingSpec).        *)
(***************************************************************************)
Distinct(q) == \A i, j \in DOMAIN q : i # j => q[i] # q[j]

\* C1: the slugs returned against one registry are pairwise distinct, and
\* after every call the registry is exactly the set of the slugs returned so
\* far, as many as there are targets processed; it never loses an element.
C1_SlugRegistry ==
    /\ [](/\ Distinct(slugs)
          /\ used = Range(slugs)
          /\ Len(slugs) = idx
          /\ Cardinality(used) = idx)
    /\ [][used \subseteq used']_vars

\* three targets processed, the last two colliding with an earlier slug
C1_Witness ==
    /\ idx = 3
    /\ Cardinality(used) = 3
    /\ SlugBase(filtered[2]) = slugs[1]
    /\ SlugBase(filtered[3]) = slugs[1]

\* the candidates of a URL in the order the allocator is to try them: the
\* sanitised last segment (home for a path without segment), the
\* parent-qualified form when there is a parent segment, then the numbered
\* forms from 2 on
CandidateBase(url) ==
    LET parts == Segments(url.path)
    IN  IF parts = <<>> THEN HOME ELSE _slugify_segment(parts[Len(parts)])

Candidates(url, count) ==
    LET parts == Segments(url.path)
        c1    == CandidateBase(url)
    IN  <<c1>>
        \o (IF Len(parts) >= 2
            THEN <<_slugify_segment(parts[Len(parts) - 1]) \o <<"-">> \o c1>>
            ELSE <<>>)
        \o [n \in 1..count |-> c1 \o <<"-">> \o ToStr(n + 1)]

FirstUnused(cands, reg) ==
    cands[CHOOSE i \in DOMAIN cands :
            /\ cands[i] \notin reg
            /\ \A j \in 1..(i - 1) : cands[j] \in reg]

IsRootPath(url) == Segments(url.path) = <<>>

HomeNames == {HOME} \cup { HOME \o <<"-">> \o ToStr(n) : n \in 2..(MaxUrls + 2) }

\* C10: every slug returned is the first unused candidate of the sequence
\* base, parent-base (only with a parent segment), base-2, base-3, ...; the
\* k-th root-path URL of a run gets home (k = 1) or home-k (k >= 2) when no
\* other URL took one of those names.
C10_FirstUnusedCandidate ==
    \A i \in DOMAIN slugs :
        LET before == { slugs[j] : j \in 1..(i - 1) }
            k      == Cardinality({ j \in 1..i : IsRootPath(filtered[j]) })
        IN  /\ slugs[i] = FirstUnused(Candidates(filtered[i], i + 1), before)
            /\ ( /\ IsRootPath(filtered[i])
                 /\ \A j \in 1..(i - 1) :
                        ~IsRootPath(filtered[j]) => slugs[j] \notin HomeNames )
               => slugs[i] = IF k = 1 THEN HOME ELSE HOME \o <<"-">> \o ToStr(k)

\* the third root-path URL of a run is named home-3, and a URL whose base and
\* parent-qualified form are both taken gets a numbered form
C10_Witness ==
    /\ idx = 3
    /\ \/ /\ \A j \in 1..3 : IsRootPath(filtered[j])
          /\ slugs[3] = <<"h","o","m","e","-","3">>
       \/ /\ Len(Segments(filtered[3].path)) >= 2
          /\ slugs[3] = <<"f","o","o","-","2">>

\* C5: a URL whose scheme is not http/https is skipped whatever the override,
\* a URL with a non-page extension is skipped exactly when the override is
\* not set, and every input URL is either processed or skipped, never both.
C5_FilterClaim ==
    pc = "rl_loop" =>
        \A i \in DOMAIN urls :
            LET url     == urls[i]
                badSch  == url.scheme \notin {"http", "https"}
                nonPage == \E ext \in NON_HTML_EXTS : EndsWith(Lower(url.path), ext)
            IN  /\ (url \in Range(filtered)) # (url \in Range(skipped))
                /\ badSch => url \in Range(skipped)
                /\ (~badSch /\ nonPage) => ((url \in Range(skipped)) <=> ~include_nonhtml)
                /\ (~badSch /\ ~nonPage) => url \in Range(filtered)


(***************************************************************************)
(* Properties of the capture of a batch (Spec).                            *)
(***************************************************************************)
VIEWPORTS == {"desktop", "mobile"}

\* capture_single_url has just returned the list of target idx
Returned == pc = "rl_loop" /\ idx >= 1 /\ Len(returned) = idx

\* capture_single_url has ended, by return or by exception
CaptureEnded == pc \in {"rl_loop", "done", "cs_raised", "rl_raised"}

\* [popup-desktop?, full-desktop, popup-mobile?, full-mobile] for the slug,
\* with the popups of the viewports in popups
ArtifactOrder(base_name, popups) ==
    (IF "desktop" \in popups THEN <<ImagePath(base_name, "popup", "desktop")>> ELSE <<>>)
    \o <<ImagePath(base_name, "full", "desktop")>>
    \o (IF "mobile" \in popups THEN <<ImagePath(base_name, "popup", "mobile")>> ELSE <<>>)
    \o <<ImagePath(base_name, "full", "mobile")>>

\* the viewports of target t whose popup region capture wrote a file
PopupsCaptured(t) ==
    { c.viewport : c \in { d \in Range(captures) : d.target = t /\ d.kind = "popup" } }

\* C2 as stated: the list returned is [popup-desktop?, full-desktop,
\* popup-mobile?, full-mobile] with a popup only where a modal was detected,
\* all 4 artifacts when a modal was detected on both viewports and the 2
\* full-page artifacts when none was detected.
C2_ArtifactOrderClaim ==
    Returned =>
        /\ \E popups \in SUBSET detected : returned[idx] = ArtifactOrder(slug, popups)
        /\ detected = VIEWPORTS => returned[idx] = ArtifactOrder(slug, VIEWPORTS)
        /\ detected = {} => returned[idx] = ArtifactOrder(slug, {})

\* C2 amended: the list returned is [popup-desktop?, full-desktop,
\* popup-mobile?, full-mobile] with the popup of exactly the viewports whose
\* popup region capture succeeded, each a viewport where a modal was
\* detected: 4 artifacts when it succeeded on both, the 2 full-page
\* artifacts when no modal was detected.
C2_ArtifactOrder ==
    Returned =>
        /\ returned[idx] = ArtifactOrder(slug, PopupsCaptured(idx))
        /\ PopupsCaptured(idx) \subseteq detected
        /\ PopupsCaptured(idx) = VIEWPORTS => Len(returned[idx]) = 4
        /\ detected = {} => returned[idx] = ArtifactOrder(slug, {})

\* a modal detected on both viewports, its popup captured on one only
C2_Witness ==
    /\ Returned
    /\ detected = VIEWPORTS
    /\ Len(returned[idx]) = 3

RECURSIVE Flatten(_)
Flatten(qs) == IF qs = <<>> THEN <<>> ELSE Head(qs) \o Flatten(Tail(qs))

CAPTURE_PCS ==
    { "cs_launch", "cs_ctx", "np_goto", "np_retry", "ps_scroll", "ps_read", "ps_test",
      "np_isi", "np_freeze", "np_hide", "np_clear1", "np_defloat", "np_clear2",
      "mo_detect", "mo_bbox", "mo_scroll", "mo_shot", "mo_close", "cs_full",
      "cs_close", "cs_bclose" }

\* C3: the targets are the surviving URLs taken in input order, a target is
\* captured only after every earlier one has returned, and the list handed
\* to document assembly is the concatenation of the lists returned, target
\* by target in that order.
C3_InputOrder ==
    /\ \A i \in DOMAIN captures : captures[i].url = filtered[captures[i].target]
    /\ pc \in CAPTURE_PCS => Len(returned) = idx - 1
    /\ \A i, j \in DOMAIN captures : i < j => captures[i].target <= captures[j].target
    /\ \A k \in DOMAIN returned : \A i \in DOMAIN returned[k] :
           \E kind \in {"popup", "full"}, v \in VIEWPORTS :
               returned[k][i] = ImagePath(slugs[k], kind, v)
    /\ ordered_images = Flatten(returned)
    /\ pc = "done" => /\ pdf_images = Flatten(returned)
                      /\ Len(returned) = Len(filtered)

\* a document assembled from two targets, the first with a popup
C3_Witness ==
    /\ pc = "done"
    /\ Len(returned) = 2
    /\ Len(returned[1]) >= 3
    /\ filtered[1] # filtered[2]

\* C4: no two captures of a batch write the same file.
C4_UniquePaths ==
    \A i, j \in DOMAIN captures : i # j => captures[i].path # captures[j].path

\* C6: no exception of try_capture_modal_only reaches its caller.
C6_ModalNeverRaises ==
    ~(pc = "cs_raised" /\ exc \in {"bbox", "modal_scroll"})

\* C7: whenever capture_single_url has ended, by return or by exception, no
\* browsing context and no browser it opened is still open.
C7_ContextsDisposed ==
    CaptureEnded => (contexts = {} /\ ~browser_open)

\* C8: a failing evaluate call of a normalisation step does not abort the
\* preparation of the page.
C8_PrepareTolerant ==
    ~(pc = "cs_raised" /\ exc \in { "settle_scroll", "isi_reached", "settle_freeze",
                                   "hide_selectors", "clear_banner_offsets", "defloat" })

GOTO_EVENTS == { "goto_load", "goto_load_failed",
                 "goto_domcontentloaded", "goto_domcontentloaded_failed" }

\* C9: a viewport load makes at most two navigation attempts, the second one
\* only after the first failed; once the second has failed the exception
\* leaves capture_single_url and run_list, no further target is taken or
\* captured and no document is assembled.
C9_SingleRetry ==
    /\ [](/\ Cardinality({ i \in DOMAIN trace : trace[i] \in GOTO_EVENTS }) <= 2
          /\ \A i \in DOMAIN trace :
                 trace[i] \in {"goto_domcontentloaded", "goto_domcontentloaded_failed"}
                     => (i = 2 /\ trace[1] = "goto_load_failed")
          /\ (\E i \in DOMAIN trace : trace[i] = "goto_domcontentloaded_failed")
                 => /\ pc \in {"cs_raised", "rl_raised"}
                    /\ exc = "goto"
                    /\ pdf_images = <<>>)
    /\ [][exc = "goto" => /\ pc' = "rl_raised"
                          /\ idx' = idx
                          /\ captures' = captures
                          /\ trace' = trace
                          /\ pdf_images' = <<>>]_vars

\* both attempts failed on the first of two targets and run_list has ended
C9_Witness ==
    /\ pc = "rl_raised"
    /\ exc = "goto"
    /\ idx = 1
    /\ Len(filtered) = 2
    /\ trace = <<"goto_load_failed", "goto_domcontentloaded_failed">>


(***************************************************************************)
(* The examples of the slug allocator (ExampleSpec).                       *)
(***************************************************************************)
S_post_one       == <<"p","o","s","t","-","o","n","e">>
S_post_two       == <<"p","o","s","t","-","t","w","o">>
S_index          == <<"i","n","d","e","x">>
S_products_index == <<"p","r","o","d","u","c","t","s","-","i","n","d","e","x">>
S_services_index == <<"s","e","r","v","i","c","e","s","-","i","n","d","e","x">>

\* the first two targets are a then b, and both have their slug
FirstTwo(a, b) ==
    /\ Len(filtered) >= 2 /\ filtered[1] = a /\ filtered[2] = b
    /\ Len(slugs) >= 2

\* C11 as stated: from an empty registry /blog/post-one then /blog/post-two
\* get post-one and post-two, and /products/index then /services/index get
\* index and products-index.
C11_ExamplesClaim ==
    /\ FirstTwo(U_post_one, U_post_two)
           => (slugs[1] = S_post_one /\ slugs[2] = S_post_two)
    /\ FirstTwo(U_products_index, U_services_index)
           => (slugs[1] = S_index /\ slugs[2] = S_products_index)

\* C11 amended: from an empty registry /blog/post-one then /blog/post-two
\* get post-one and post-two, and /products/index then /services/index get
\* index and services-index, the colliding URL qualified by its own parent.
C11_Examples ==
    /\ FirstTwo(U_post_one, U_post_two)
           => (slugs[1] = S_post_one /\ slugs[2] = S_post_two)
    /\ FirstTwo(U_products_index, U_services_index)
           => (slugs[1] = S_index /\ slugs[2] = S_services_index)

\* /products/index and /services/index allocated in this order
C11_Witness ==
    /\ FirstTwo(U_products_index, U_services_index)
    /\ slugs[2] = S_services_index


(***************************************************************************)
(* Properties of one viewport capture (Spec).  trace holds the page calls  *)
(* of the page of viewport vp, except between the closing of a context and *)
(* the opening of the next one (pc = "cs_ctx").                            *)
(***************************************************************************)
Before(a, b) ==
    \A i \in DOMAIN trace : trace[i] = b => \E j \in 1..(i - 1) : trace[j] = a

\* C12: on a viewport where the detection reported a modal, Close is carried
\* out before the full-page capture whether or not the popup capture gave an
\* artifact; Close never comes before the popup capture attempt and never on
\* a viewport without a detected modal.
C12_CloseBeforeFull ==
    pc # "cs_ctx" =>
        /\ (vp \in detected /\ ~no_modal_shot) => Before("close", "full_shot")
        /\ Before("popup_shot", "close")
        /\ (\E i \in DOMAIN trace : trace[i] = "close") => vp \in detected

DIRECTIVES == { "settle_scroll", "isi_reached", "settle_freeze", "hide_selectors",
                "clear_banner_offsets", "defloat" }

\* the normalisation directives issued on the current page, in order
Issued == SelectSeq(trace, LAMBDA e : e \in DIRECTIVES)

\* the enabled steps of the fixed order
EnabledDirectives ==
    (IF settle THEN <<"settle_scroll">> ELSE <<>>)
    \o (IF isi_reached THEN <<"isi_reached">> ELSE <<>>)
    \o (IF settle THEN <<"settle_freeze">> ELSE <<>>)
    \o (IF hide_selectors THEN <<"hide_selectors", "clear_banner_offsets">> ELSE <<>>)
    \o (IF defloat THEN <<"defloat", "clear_banner_offsets">> ELSE <<>>)

IsPrefix(a, b) == Len(a) <= Len(b) /\ a = SubSeq(b, 1, Len(a))

\* nav_and_prepare has returned on the current page
PREPARED_PCS == { "mo_detect", "mo_bbox", "mo_scroll", "mo_shot", "mo_close",
                  "cs_full", "cs_close" }

\* C13: under every combination of the flags the directives issued follow
\* the fixed order settle scroll, ISI-reached, settle freeze, hide selectors,
\* banner-offset correction, defloat, banner-offset correction, restricted
\* to the enabled steps: what has been issued is always a prefix of that
\* list and is the whole list once nav_and_prepare has returned; the freeze
\* is issued only after the scroll loop has finished, and the scroll loop
\* runs only with settle.
C13_DirectiveOrder ==
    /\ IsPrefix(Issued, EnabledDirectives)
    /\ pc \in PREPARED_PCS => Issued = EnabledDirectives
    /\ pc = "np_freeze" => \E i \in DOMAIN trace : trace[i] = "settle_scroll"
    /\ pc \in {"ps_scroll", "ps_read", "ps_test"} => (settle /\ Issued = <<>>)

\* every flag set and the seven directives issued
C13_Witness ==
    /\ settle /\ isi_reached /\ hide_selectors /\ defloat
    /\ pc \in PREPARED_PCS
    /\ Len(Issued) = 7


(***************************************************************************)
(* The scroll loop (ScrollSpec).                                           *)
(***************************************************************************)
IN_SCROLL == { "ps_scroll", "ps_read", "ps_test" }

CeilDiv(a, b) == (a + b - 1) \div b

\* the number of the iteration under way: y = 0 in the first, one step more
\* in each later one
Iteration == (y \div SCROLL_STEP) + 1

\* while the loop runs, y is a multiple of the step and the iteration under
\* way is at most ceil(H/step)+1, H the greatest height read so far; and as
\* long as every height read was a step above the one before, the test of
\* the loop finds y < new_h
ScrollBound ==
    pc \in IN_SCROLL =>
        /\ y % SCROLL_STEP = 0
        /\ Iteration <= CeilDiv(max_h, SCROLL_STEP) + 1
        /\ (pc = "ps_test" /\ grew) => y < new_h

\* the test of the loop leaves it exactly when y >= new_h
ExitTest ==
    (pc = "ps_test" /\ pc' # pc) => (pc' \notin IN_SCROLL <=> y >= new_h)

\* C14: with the heights reported bounded by H the loop ends: it leaves at
\* the first position y, a multiple of the step from 0, with y >= the height
\* read after scrolling to y, within ceil(H/step)+1 iterations; while every
\* read grows by at least one step the exit test fails, and the test is the
\* only way out (there is no cap on the steps).
C14_ScrollTerminates ==
    /\ []ScrollBound
    /\ [][ExitTest]_vars
    /\ <>(pc \notin IN_SCROLL)

\* the exit test succeeds in the last iteration the bound allows, after the
\* page has been scrolled more than once
C14_Witness ==
    /\ pc = "ps_test"
    /\ y >= new_h
    /\ y >= 2 * SCROLL_STEP
    /\ Iteration = CeilDiv(max_h, SCROLL_STEP) + 1

=============================================================================
